---- MODULE Spec2Model ----
(***************************************************************************)
(* TinyLlavaForConditionalGeneration (tinyllava/model/modeling_tinyllava.py)*)
(*                                                                         *)
(* Three specifications are modelled:                                      *)
(*   SpecFusion  prepare_inputs_labels_for_multimodal: one call, stepped    *)
(*               through its loops (lines 223-353).                         *)
(*   SpecCall    forward and generate (lines 112-197): one call, through    *)
(*               the fusion steps it makes, to the call on the decoder.     *)
(*   SpecLoad    from_pretrained with load_llm / load_vision_tower /        *)
(*               load_connector (lines 356-517).                            *)
(* Tensors are sequences; a batch is a sequence of rows.  An embedding      *)
(* vector is a record naming where it came from (a token, an image patch,   *)
(* or the zero vector of the padding), so that equal vectors mean equal     *)
(* origin.  Python's None is an option record with some = FALSE.            *)
(***************************************************************************)
EXTENDS Integers, Sequences, FiniteSets, TLC

\* ---------------------------------------------------------------- bounds
MaxLen == 2        \* raw sequence length input_ids.shape[1] ranges over 1..MaxLen
MaxImages == 2     \* the images argument holds 0..MaxImages images
NumPatches == 2    \* patches per encoded image (rows of one image block)
MaxModelLength == 2 \* tokenizer_model_max_length is None or MaxModelLength

BatchSizes == {1, 2}

\* ------------------------------------------------------ program constants
IMAGE_TOKEN_INDEX == -200
IGNORE_INDEX == -100

\* ---------------------------------------------------------------- values
None == [some |-> FALSE, val |-> <<>>]
Some(v) == [some |-> TRUE, val |-> v]
NoneInt == [some |-> FALSE, val |-> 0]

Min(a, b) == IF a <= b THEN a ELSE b

RECURSIVE MaxOf(_)
MaxOf(lens) ==
  IF Len(lens) = 1 THEN lens[1]
  ELSE LET m == MaxOf(Tail(lens)) IN IF lens[1] >= m THEN lens[1] ELSE m

RECURSIVE ConcatAll(_)
ConcatAll(parts) ==
  IF parts = <<>> THEN <<>> ELSE Head(parts) \o ConcatAll(Tail(parts))

\* x[a:b] of Python for 0 <= a, with b clipped to the length
Slice(x, a, b) == SubSeq(x, a + 1, Min(b, Len(x)))

Full(n, v) == [k \in 1..n |-> v]

\* the decoder's embedding table applied to one token id
Embed(tok) == [kind |-> "tok", id |-> tok, patch |-> 0]
EmbedSeq(ids) == [k \in 1..Len(ids) |-> Embed(ids[k])]
ZeroVec == [kind |-> "zero", id |-> 0, patch |-> 0]

\* encode_images: connector(vision_tower(images)); block k (0-based) of n
ImageBlock(k) == [p \in 1..NumPatches |-> [kind |-> "img", id |-> k, patch |-> p]]
encode_images(n) == [k \in 1..n |-> ImageBlock(k - 1)]

\* cur_input_ids[cur_attention_mask]: boolean-mask indexing of one row
MaskSelect(row, m) ==
  LET F[k \in 0..Len(row)] ==
        IF k = 0 THEN <<>>
        ELSE IF m[k] THEN Append(F[k - 1], row[k]) ELSE F[k - 1]
  IN F[Len(row)]

\* (cur_input_ids == IMAGE_TOKEN_INDEX).sum()
NumImages(ids) == Cardinality({k \in 1..Len(ids) : ids[k] = IMAGE_TOKEN_INDEX})

\* [-1] + torch.where(cur_input_ids == IMAGE_TOKEN_INDEX)[0].tolist() + [len]
ImageTokenIndices(ids) ==
  LET W[k \in 0..Len(ids)] ==
        IF k = 0 THEN <<>>
        ELSE IF ids[k] = IMAGE_TOKEN_INDEX THEN Append(W[k - 1], k - 1) ELSE W[k - 1]
  IN <<-1>> \o W[Len(ids)] \o <<Len(ids)>>

\* the segments between sentinels (lines 277-279)
NoIm(x, idx) == [i \in 1..(Len(idx) - 1) |-> Slice(x, idx[i] + 1, idx[i + 1])]

\* torch.split(x, sizes)
RECURSIVE Split(_, _)
Split(x, sizes) ==
  IF sizes = <<>> THEN <<>>
  ELSE <<SubSeq(x, 1, Head(sizes))>> \o Split(SubSeq(x, Head(sizes) + 1, Len(x)), Tail(sizes))

\* ------------------------------------------- the fusion loop, one sample
\* mutant: the cursor is not advanced after a block was spliced in
AdvanceCursorStuck(cur) == cur

\* cur_image_idx += 1 after a block was spliced in for a sentinel (line 291)
AdvanceCursor(cur) == cur + 1

\* mutant: a sample without sentinel leaves the cursor where it is
AdvanceCursorNoImageStuck(cur) == cur

\* cur_image_idx += 1 of a sample without sentinel (line 270)
AdvanceCursorNoImage(cur) == cur + 1

\* image_features[cur_image_idx] raises IndexError outside 0..n-1
InRange(feats, cur) == cur < Len(feats)

\* mutant: every sentinel receives the first block
BlockAtFirst(feats, cur) == feats[1]

\* the block spliced in for the sentinel at cursor cur (line 290)
BlockAt(feats, cur) == feats[cur + 1]

\* mutant: one label stands for a whole image block
BlockLabelsSingle(block) == <<IGNORE_INDEX>>

\* labels of one spliced block: torch.full((patches,), IGNORE_INDEX) (line 293)
BlockLabels(block) == Full(Len(block), IGNORE_INDEX)

\* lines 264-271: the sample holds no sentinel
FuseNoImage(ids, labs, feats, cur) ==
  IF ~InRange(feats, cur)
  THEN [raised |-> TRUE, embeds |-> <<>>, labels |-> <<>>, cur |-> cur]
  ELSE [raised |-> FALSE,
        embeds |-> EmbedSeq(ids) \o Slice(BlockAt(feats, cur), 0, 0),
        labels |-> labs,
        cur    |-> AdvanceCursorNoImage(cur)]

\* lines 286-293: for i in range(num_images + 1), st carries the lists built so far
RECURSIVE Interleave(_, _, _, _, _, _)
Interleave(i, n, embeds_no_im, labels_noim, feats, st) ==
  IF i > n THEN st
  ELSE LET st1 == [st EXCEPT !.embeds = Append(@, embeds_no_im[i + 1]),
                             !.labels = Append(@, labels_noim[i + 1])]
       IN IF i < n
          THEN IF ~InRange(feats, st1.cur)
               THEN [st1 EXCEPT !.raised = TRUE]
               ELSE LET block == BlockAt(feats, st1.cur)
                    IN Interleave(i + 1, n, embeds_no_im, labels_noim, feats,
                         [st1 EXCEPT !.embeds = Append(@, block),
                                     !.labels = Append(@, BlockLabels(block)),
                                     !.cur = AdvanceCursor(@)])
          ELSE Interleave(i + 1, n, embeds_no_im, labels_noim, feats, st1)

\* lines 273-301: the sample holds num_images >= 1 sentinels
FuseWithImages(ids, labs, feats, cur) ==
  LET num_images == NumImages(ids)
      image_token_indices == ImageTokenIndices(ids)
      cur_input_ids_noim == NoIm(ids, image_token_indices)
      cur_labels_noim == NoIm(labs, image_token_indices)
      split_sizes == [i \in 1..Len(cur_labels_noim) |-> Len(cur_labels_noim[i])]
      cur_input_embeds == EmbedSeq(ConcatAll(cur_input_ids_noim))
      cur_input_embeds_no_im == Split(cur_input_embeds, split_sizes)
      st == Interleave(0, num_images, cur_input_embeds_no_im, cur_labels_noim, feats,
                       [raised |-> FALSE, embeds |-> <<>>, labels |-> <<>>, cur |-> cur])
  IN IF st.raised
     THEN [raised |-> TRUE, embeds |-> <<>>, labels |-> <<>>, cur |-> st.cur]
     ELSE [raised |-> FALSE, embeds |-> ConcatAll(st.embeds),
           labels |-> ConcatAll(st.labels), cur |-> st.cur]

\* one iteration of the loop over the batch (lines 262-301)
FuseSample(ids, labs, feats, cur) ==
  IF NumImages(ids) = 0 THEN FuseNoImage(ids, labs, feats, cur)
  ELSE FuseWithImages(ids, labs, feats, cur)

\* -------------------------------------------------------------- state
VARIABLES
  \* the entry point the call came through, and what only that entry point takes
  caller,               \* "prepare" (called directly), "forward" or "generate"
  arg_inputs_embeds,    \* option: forward's inputs_embeds argument
  kwargs,               \* the keys of generate's **kwargs left after the two pops
  \* the model object and its configuration
  vision_tower,         \* TRUE when self.vision_tower is not None
  config,               \* tune_mm_mlp_adapter, tokenizer_model_max_length, tokenizer_padding_side
  \* the caller's arguments of prepare_inputs_labels_for_multimodal
  input_ids,            \* batch of rows of token ids (kept as _input_ids)
  arg_position_ids,     \* option: _position_ids
  arg_attention_mask,   \* option: _attention_mask, entries 0 / 1
  arg_labels,           \* option: _labels
  past_key_values,      \* option: the decoder's cache, opaque to this class
  images,               \* option: the number of images in the batch
  \* locals of the call
  pc,
  image_features,       \* sequence of image blocks
  encode_calls,         \* the number of encode_images calls made
  attention_mask,       \* the (defaulted) boolean mask, later the padded one
  position_ids,         \* the (defaulted) position ids, later the padded ones
  labels,               \* list of depadded label rows
  ids_list,             \* input_ids rebound to the list of depadded rows (line 256)
  batch_idx,
  cur_image_idx,
  new_input_embeds,
  new_labels,
  new_input_embeds_padded,
  new_labels_padded,
  pad_i,
  \* how the call ended
  ret,                  \* option: the returned tuple
  raised,               \* "" or the exception that left the call
  decoder               \* option: the call made on language_model and its arguments

args == <<caller, arg_inputs_embeds, kwargs, vision_tower, config, input_ids,
          arg_position_ids, arg_attention_mask, arg_labels, past_key_values, images>>
locals == <<image_features, encode_calls, attention_mask, position_ids, labels, ids_list, batch_idx,
            cur_image_idx, new_input_embeds, new_labels, new_input_embeds_padded,
            new_labels_padded, pad_i>>
fusion_vars == <<args, locals, pc, ret, raised, decoder>>

VARIABLES
  \* the call in progress: from_pretrained, or one component loader called directly
  op,                   \* "from_pretrained", "load_llm", "load_vision_tower", "load_connector"
  pretrained_path,      \* what kwargs['pretrained_model_path'] names on disk
  disk,                 \* the files under the path and what load_file reads from them
  kwargs_fsd,           \* option: kwargs['full_state_dict']
  \* locals of from_pretrained
  lpc,
  full_state_dict,      \* the local full_state_dict: unbound, or a map key -> tensor
  files_to_load,        \* list of (file_name, tensor_names), in dict order
  file_idx,             \* files of files_to_load already visited
  \* what the call did
  opened,               \* per shard file, the number of load_file calls on it
  warnings,             \* the "Warning: ..." lines printed
  modules,              \* per component: where its weights came from, and the weights
  attempts,             \* the load_state_dict calls made: component and strict flag
  frozen,               \* language_model.requires_grad_(False) was applied
  lraised               \* "" or the exception that left the call

load_vars == <<op, pretrained_path, disk, kwargs_fsd, lpc, full_state_dict, files_to_load,
               file_idx, opened, warnings, modules, attempts, frozen, lraised>>

\* ------------------------------------------------------------- inputs
\* a text token id of row i, column j (1-based); row 1 is 5, 6, 7, row 2 is 9, 10, 11
TextTok(i, j) == 4 * i + j
LabelAt(i, j) == 100 * i + j
PositionAt(i, j) == 3 + j

\* the batches a caller passes: every placement of sentinels in a batch of B rows
\* of L tokens, with no mask or any 0 / 1 mask
GeneralBatches ==
  UNION {
    {[ids |-> [i \in 1..B |-> [j \in 1..L |->
                 IF j \in sent[i] THEN IMAGE_TOKEN_INDEX ELSE TextTok(i, j)]],
      mask |-> m] :
       sent \in [1..B -> SUBSET (1..L)],
       m \in {None} \cup {Some(x) : x \in [1..B -> [1..L -> {0, 1}]]}} :
    B \in BatchSizes, L \in 1..MaxLen}

\* the batch of the documented scenario: A = [5, SENTINEL, 7] and B = [9], which a
\* padding tokenizer hands over as one tensor with B padded on the right
ScenarioBatch ==
  [ids |-> <<(<<5, IMAGE_TOKEN_INDEX, 7>>), (<<9, 0, 0>>)>>,
   mask |-> Some(<<(<<1, 1, 1>>), (<<1, 0, 0>>)>>)]

Batches == GeneralBatches \cup {ScenarioBatch}

Configs ==
  [tune_mm_mlp_adapter : BOOLEAN,
   tokenizer_model_max_length : {NoneInt, [some |-> TRUE, val |-> MaxModelLength]},
   tokenizer_padding_side : {"right", "left"}]

InitLocals ==
  /\ image_features = <<>>
  /\ encode_calls = 0
  /\ attention_mask = <<>>
  /\ position_ids = <<>>
  /\ labels = <<>>
  /\ ids_list = <<>>
  /\ batch_idx = 0
  /\ cur_image_idx = 0
  /\ new_input_embeds = <<>>
  /\ new_labels = <<>>
  /\ new_input_embeds_padded = <<>>
  /\ new_labels_padded = <<>>
  /\ pad_i = 0

InitFusionCall ==
  /\ caller = "prepare"
  /\ arg_inputs_embeds = None
  /\ kwargs = {}
  /\ past_key_values = None
  /\ vision_tower \in BOOLEAN
  /\ config \in Configs
  /\ \E b \in Batches :
       /\ input_ids = b.ids
       /\ arg_attention_mask = b.mask
       /\ arg_labels \in {None, Some([i \in 1..Len(b.ids) |->
                               [j \in 1..Len(b.ids[1]) |-> LabelAt(i, j)]])}
       /\ arg_position_ids \in {None, Some([i \in 1..Len(b.ids) |->
                               [j \in 1..Len(b.ids[1]) |-> PositionAt(i, j)]])}
  /\ images \in {NoneInt} \cup {[some |-> TRUE, val |-> n] : n \in 0..MaxImages}
  /\ InitLocals
  /\ pc = "call"
  /\ ret = None
  /\ raised = ""
  /\ decoder = None

\* ------------------------------------------------------------ actions
BatchSize == Len(input_ids)
SeqLen == Len(input_ids[1])

\* the tuple the call returns (lines 229 and 353)
Returned(ids, pos, mask, pkv, embeds, labs) ==
  Some([input_ids |-> ids, position_ids |-> pos, attention_mask |-> mask,
        past_key_values |-> pkv, inputs_embeds |-> embeds, labels |-> labs])

\* mutant: a batch of sequence length 1 is fused like any other
ShortCircuitsAnyLength == ~vision_tower \/ ~images.some

\* line 228
ShortCircuits == ~vision_tower \/ ~images.some \/ SeqLen = 1

\* lines 227-229: nothing to fuse, the arguments are handed back
ShortCircuit ==
  /\ pc = "call"
  /\ ShortCircuits
  /\ ret' = Returned(Some(input_ids), arg_position_ids, arg_attention_mask, past_key_values,
                     None, arg_labels)
  /\ pc' = "done"
  /\ UNCHANGED <<load_vars, decoder, args, locals, raised>>

\* lines 232-236: the images are encoded, then the unsupported mode is refused
RaiseTuneAdapter ==
  /\ pc = "call"
  /\ ~ShortCircuits
  /\ config.tune_mm_mlp_adapter
  /\ image_features' = encode_images(images.val)
  /\ encode_calls' = encode_calls + 1
  /\ raised' = "NotImplementedError"
  /\ pc' = "raised"
  /\ UNCHANGED <<load_vars, decoder, args, attention_mask, position_ids, labels, ids_list,
                 batch_idx,
                 cur_image_idx, new_input_embeds, new_labels, new_input_embeds_padded,
                 new_labels_padded, pad_i, ret>>

\* lines 245-248
DefaultMask ==
  IF ~arg_attention_mask.some
  THEN [i \in 1..BatchSize |-> [j \in 1..SeqLen |-> TRUE]]
  ELSE [i \in 1..BatchSize |-> [j \in 1..SeqLen |-> arg_attention_mask.val[i][j] # 0]]

\* lines 249-250
DefaultPositionIds ==
  IF ~arg_position_ids.some THEN [j \in 1..SeqLen |-> j - 1] ELSE arg_position_ids.val

\* lines 251-252
DefaultLabels ==
  IF ~arg_labels.some
  THEN [i \in 1..BatchSize |-> [j \in 1..SeqLen |-> IGNORE_INDEX]]
  ELSE arg_labels.val

\* lines 232-261: encode, default the absent arguments, strip the padding
Prepare ==
  /\ pc = "call"
  /\ ~ShortCircuits
  /\ ~config.tune_mm_mlp_adapter
  /\ image_features' = encode_images(images.val)
  /\ encode_calls' = encode_calls + 1
  /\ attention_mask' = DefaultMask
  /\ position_ids' = DefaultPositionIds
  /\ ids_list' = [i \in 1..BatchSize |-> MaskSelect(input_ids[i], DefaultMask[i])]
  /\ labels' = [i \in 1..BatchSize |-> MaskSelect(DefaultLabels[i], DefaultMask[i])]
  /\ new_input_embeds' = <<>>
  /\ new_labels' = <<>>
  /\ cur_image_idx' = 0
  /\ batch_idx' = 0
  /\ pc' = "fuse"
  /\ UNCHANGED <<load_vars, decoder, args, new_input_embeds_padded, new_labels_padded, pad_i,
                 ret, raised>>

\* lines 262-301: one sample of the batch; an index past the image blocks raises
FuseNext ==
  /\ pc = "fuse"
  /\ batch_idx < Len(ids_list)
  /\ LET r == FuseSample(ids_list[batch_idx + 1], labels[batch_idx + 1],
                         image_features, cur_image_idx)
     IN IF r.raised
        THEN /\ raised' = "IndexError"
             /\ pc' = "raised"
             /\ cur_image_idx' = r.cur
             /\ UNCHANGED <<new_input_embeds, new_labels, batch_idx>>
        ELSE /\ new_input_embeds' = Append(new_input_embeds, r.embeds)
             /\ new_labels' = Append(new_labels, r.labels)
             /\ cur_image_idx' = r.cur
             /\ batch_idx' = batch_idx + 1
             /\ UNCHANGED <<raised, pc>>
  /\ UNCHANGED <<load_vars, decoder, args, image_features, encode_calls, attention_mask,
                 position_ids, labels, ids_list,
                 new_input_embeds_padded, new_labels_padded, pad_i, ret>>

\* x[:tokenizer_model_max_length] (lines 306-307)
TruncateTo(x, cap) == Slice(x, 0, cap)

\* lines 303-307: after the last sample, cut every fused sample to the configured length
Truncate ==
  /\ pc = "fuse"
  /\ batch_idx = Len(ids_list)
  /\ LET tokenizer_model_max_length == config.tokenizer_model_max_length
     IN IF tokenizer_model_max_length.some
        THEN /\ new_input_embeds' = [i \in 1..Len(new_input_embeds) |->
                   TruncateTo(new_input_embeds[i], tokenizer_model_max_length.val)]
             /\ new_labels' = [i \in 1..Len(new_labels) |->
                   TruncateTo(new_labels[i], tokenizer_model_max_length.val)]
        ELSE UNCHANGED <<new_input_embeds, new_labels>>
  /\ pc' = "combine"
  /\ UNCHANGED <<load_vars, decoder, args, image_features, encode_calls, attention_mask,
                 position_ids, labels, ids_list,
                 batch_idx, cur_image_idx, new_input_embeds_padded, new_labels_padded,
                 pad_i, ret, raised>>

\* max(x.shape[0] for x in new_input_embeds) (line 310)
MaxLenOf(embeds) == MaxOf([i \in 1..Len(embeds) |-> Len(embeds[i])])

\* lines 309-316: allocate the padded labels, mask and position ids
Combine ==
  /\ pc = "combine"
  /\ LET max_len == MaxLenOf(new_input_embeds)
         batch_size == Len(new_input_embeds)
     IN /\ new_input_embeds_padded' = <<>>
        /\ new_labels_padded' = [i \in 1..batch_size |-> Full(max_len, IGNORE_INDEX)]
        /\ attention_mask' = [i \in 1..batch_size |-> Full(max_len, FALSE)]
        /\ position_ids' = [i \in 1..batch_size |-> Full(max_len, 0)]
  /\ pad_i' = 0
  /\ pc' = "pad"
  /\ UNCHANGED <<load_vars, decoder, args, image_features, encode_calls, labels, ids_list,
                 batch_idx, cur_image_idx,
                 new_input_embeds, new_labels, ret, raised>>

\* mutant: the zero vectors are appended whatever the padding side
PadEmbedsRight(side, embed, max_len) == embed \o Full(max_len - Len(embed), ZeroVec)

\* torch.cat of the sample and max_len - cur_len zero vectors (lines 321-324, 330-333)
PadEmbeds(side, embed, max_len) ==
  IF side = "left"
  THEN Full(max_len - Len(embed), ZeroVec) \o embed
  ELSE embed \o Full(max_len - Len(embed), ZeroVec)

\* row[-cur_len:] = vals for the left side, row[:cur_len] = vals otherwise,
\* both under if cur_len > 0 (lines 325-328, 334-337)
AssignSpan(side, row, vals) ==
  LET cur_len == Len(vals)
      off == Len(row) - cur_len
  IN IF cur_len > 0
     THEN IF side = "left"
          THEN [j \in 1..Len(row) |-> IF j > off THEN vals[j - off] ELSE row[j]]
          ELSE [j \in 1..Len(row) |-> IF j <= cur_len THEN vals[j] ELSE row[j]]
     ELSE row

\* mutant: positions are counted from one
ArangeFromOne(cur_len) == [j \in 1..cur_len |-> j]

\* torch.arange(0, cur_len) (lines 328, 337)
Arange(cur_len) == [j \in 1..cur_len |-> j - 1]

\* getattr(self.config, 'tokenizer_padding_side', 'right') (line 320)
PaddingSide == config.tokenizer_padding_side

\* lines 318-337: one row of the padded batch
PadRow ==
  /\ pc = "pad"
  /\ pad_i < Len(new_input_embeds)
  /\ LET i == pad_i + 1
         cur_new_embed == new_input_embeds[i]
         cur_new_labels == new_labels[i]
         cur_len == Len(cur_new_embed)
         max_len == Len(new_labels_padded[i])
     IN /\ new_input_embeds_padded' =
             Append(new_input_embeds_padded, PadEmbeds(PaddingSide, cur_new_embed, max_len))
        /\ new_labels_padded' = [new_labels_padded EXCEPT
             ![i] = AssignSpan(PaddingSide, @, cur_new_labels)]
        /\ attention_mask' = [attention_mask EXCEPT
             ![i] = AssignSpan(PaddingSide, @, Full(cur_len, TRUE))]
        /\ position_ids' = [position_ids EXCEPT
             ![i] = AssignSpan(PaddingSide, @, Arange(cur_len))]
  /\ pad_i' = pad_i + 1
  /\ UNCHANGED <<load_vars, decoder, args, image_features, encode_calls, labels, ids_list,
                 batch_idx, cur_image_idx,
                 new_input_embeds, new_labels, pc, ret, raised>>

\* attention_mask.to(dtype=_attention_mask.dtype) (line 349)
ToMaskDtype(m) == [i \in 1..Len(m) |-> [j \in 1..Len(m[i]) |-> IF m[i][j] THEN 1 ELSE 0]]

\* lines 341-344
ReturnedLabels == IF ~arg_labels.some THEN None ELSE Some(new_labels_padded)

\* lines 346-349
ReturnedMask == IF ~arg_attention_mask.some THEN None ELSE Some(ToMaskDtype(attention_mask))

\* mutant: the padded position ids are returned although the caller passed none
ReturnedPositionIdsAlways == Some(position_ids)

\* lines 351-352
ReturnedPositionIds == IF ~arg_position_ids.some THEN None ELSE Some(position_ids)

\* lines 339-353: stack the rows, null what the caller did not pass, return
Return ==
  /\ pc = "pad"
  /\ pad_i = Len(new_input_embeds)
  /\ ret' = Returned(None, ReturnedPositionIds, ReturnedMask, past_key_values,
                     Some(new_input_embeds_padded), ReturnedLabels)
  /\ pc' = "done"
  /\ UNCHANGED <<load_vars, decoder, args, locals, raised>>

NextFusion ==
  \/ ShortCircuit
  \/ RaiseTuneAdapter
  \/ Prepare
  \/ FuseNext
  \/ Truncate
  \/ Combine
  \/ PadRow
  \/ Return

\* ------------------------------------------------- forward and generate
\* the batches forward and generate are followed on: every placement of sentinels,
\* with no mask or a mask without padding, and the documented scenario
CallerBatches ==
  UNION {
    {[ids |-> [i \in 1..B |-> [j \in 1..L |->
                 IF j \in sent[i] THEN IMAGE_TOKEN_INDEX ELSE TextTok(i, j)]],
      mask |-> m] :
       sent \in [1..B -> SUBSET (1..L)],
       m \in {None, Some([i \in 1..B |-> [j \in 1..L |-> 1]])}} :
    B \in BatchSizes, L \in 1..MaxLen}
  \cup {ScenarioBatch}

\* the cache is absent, or some cache the decoder built
PastKeyValues == {None, Some(<<"cache">>)}

\* keyword arguments of a generate call besides position_ids and attention_mask
GenerateKwargs == SUBSET {"inputs_embeds", "max_new_tokens"}

\* what the model, its configuration and the images argument can be
InitModelAndImages ==
  /\ vision_tower \in BOOLEAN
  /\ config \in Configs
  /\ images \in {NoneInt} \cup {[some |-> TRUE, val |-> n] : n \in 0..MaxImages}
  /\ InitLocals
  /\ pc = "enter"
  /\ ret = None
  /\ raised = ""
  /\ decoder = None

\* a call of forward (lines 112-126)
InitForward ==
  /\ caller = "forward"
  /\ kwargs = {}
  /\ past_key_values \in PastKeyValues
  /\ \E b \in CallerBatches :
       /\ input_ids = b.ids
       /\ arg_attention_mask = b.mask
       /\ arg_labels \in {None, Some([i \in 1..Len(b.ids) |->
                               [j \in 1..Len(b.ids[1]) |-> LabelAt(i, j)]])}
       /\ arg_position_ids \in {None, Some([i \in 1..Len(b.ids) |->
                               [j \in 1..Len(b.ids[1]) |-> PositionAt(i, j)]])}
       /\ arg_inputs_embeds \in {None, Some([i \in 1..Len(b.ids) |->
                               [j \in 1..Len(b.ids[1]) |-> Embed(TextTok(i, j))]])}
  /\ InitModelAndImages

\* a call of generate (lines 160-168): position_ids and attention_mask are popped
\* from kwargs, and fusion is later called with no past key values and no labels
InitGenerate ==
  /\ caller = "generate"
  /\ kwargs \in GenerateKwargs
  /\ arg_inputs_embeds = None
  /\ past_key_values = None
  /\ arg_labels = None
  /\ \E b \in CallerBatches :
       /\ input_ids = b.ids
       /\ arg_attention_mask = b.mask
       /\ arg_position_ids \in {None, Some([i \in 1..Len(b.ids) |->
                               [j \in 1..Len(b.ids[1]) |-> PositionAt(i, j)]])}
  /\ InitModelAndImages

\* the call made on language_model: the method and the arguments it is given
DecoderCall(method, ids, pos, mask, pkv, embeds, labs, kw) ==
  Some([method |-> method, input_ids |-> ids, position_ids |-> pos,
        attention_mask |-> mask, past_key_values |-> pkv, inputs_embeds |-> embeds,
        labels |-> labs, kwargs |-> kw])

\* language_model.get_input_embeddings()(inputs) (line 190)
EmbedTokens(ids) == [i \in 1..Len(ids) |-> EmbedSeq(ids[i])]

\* the embedding table has no row for a negative id
EmbedTokensRaises(ids) == \E i \in 1..Len(ids) : NumImages(ids[i]) > 0

\* lines 127, 144-157: forward was given embeddings, fusion is skipped
ForwardWithEmbeds ==
  /\ pc = "enter"
  /\ caller = "forward"
  /\ arg_inputs_embeds.some
  /\ decoder' = DecoderCall("forward", Some(input_ids), arg_position_ids, arg_attention_mask,
                            past_key_values, arg_inputs_embeds, arg_labels, {})
  /\ pc' = "returned"
  /\ UNCHANGED <<load_vars, args, locals, ret, raised>>

\* lines 127-143: forward was given no embeddings and calls fusion
ForwardPrepare ==
  /\ pc = "enter"
  /\ caller = "forward"
  /\ ~arg_inputs_embeds.some
  /\ pc' = "call"
  /\ UNCHANGED <<load_vars, args, locals, ret, raised, decoder>>

\* lines 128-157: what fusion returned is handed to language_model.forward
ForwardDelegate ==
  /\ pc = "done"
  /\ caller = "forward"
  /\ decoder' = DecoderCall("forward", ret.val.input_ids, ret.val.position_ids,
                            ret.val.attention_mask, ret.val.past_key_values,
                            ret.val.inputs_embeds, ret.val.labels, {})
  /\ pc' = "returned"
  /\ UNCHANGED <<load_vars, args, locals, ret, raised>>

\* lines 169-170
GenerateReject ==
  /\ pc = "enter"
  /\ caller = "generate"
  /\ "inputs_embeds" \in kwargs
  /\ raised' = "NotImplementedError"
  /\ pc' = "raised"
  /\ UNCHANGED <<load_vars, args, locals, ret, decoder>>

\* lines 172-188: images were passed, fusion is called
GeneratePrepare ==
  /\ pc = "enter"
  /\ caller = "generate"
  /\ "inputs_embeds" \notin kwargs
  /\ images.some
  /\ pc' = "call"
  /\ UNCHANGED <<load_vars, args, locals, ret, raised, decoder>>

\* lines 189-197: no images, the token ids are embedded and handed to
\* language_model.generate, which is not given the token ids themselves
GenerateEmbed ==
  /\ pc = "enter"
  /\ caller = "generate"
  /\ "inputs_embeds" \notin kwargs
  /\ ~images.some
  /\ IF EmbedTokensRaises(input_ids)
     THEN /\ raised' = "IndexError"
          /\ pc' = "raised"
          /\ UNCHANGED decoder
     ELSE /\ decoder' = DecoderCall("generate", None, arg_position_ids, arg_attention_mask,
                                    None, Some(EmbedTokens(input_ids)), None, kwargs)
          /\ pc' = "returned"
          /\ UNCHANGED raised
  /\ UNCHANGED <<load_vars, args, locals, ret>>

\* lines 173-197: of what fusion returned, the position ids, the mask and the
\* embeddings are handed to language_model.generate; the token ids are not
GenerateDelegate ==
  /\ pc = "done"
  /\ caller = "generate"
  /\ decoder' = DecoderCall("generate", None, ret.val.position_ids, ret.val.attention_mask,
                            None, ret.val.inputs_embeds, None, kwargs)
  /\ pc' = "returned"
  /\ UNCHANGED <<load_vars, args, locals, ret, raised>>

NextCall ==
  \/ ForwardWithEmbeds
  \/ ForwardPrepare
  \/ ForwardDelegate
  \/ GenerateReject
  \/ GeneratePrepare
  \/ GenerateEmbed
  \/ GenerateDelegate
  \/ ShortCircuit
  \/ RaiseTuneAdapter
  \/ Prepare
  \/ FuseNext
  \/ Truncate
  \/ Combine
  \/ PadRow
  \/ Return

vars == <<fusion_vars, load_vars>>

\* ================================================= checkpoint loading
\* A tensor name is a component prefix and the rest of the name; a tensor read from a
\* file is named by the file and the name, so tensors of different files differ.
Components == {"language_model", "vision_tower", "connector"}
Key(comp, name) == [comp |-> comp, name |-> name]
Keys == {Key("language_model", "weight"), Key("vision_tower", "weight"),
         Key("connector", "weight"), Key("connector", "extra")}

\* the order in which a manifest lists its tensor names
KeyOrder == <<Key("language_model", "weight"), Key("vision_tower", "weight"),
              Key("connector", "weight"), Key("connector", "extra")>>

\* the state-dict keys each component's module owns
ExpectedNames(comp) == {"weight"}

ShardFiles == {"shard1", "shard2"}

Tensor(file, k) == [file |-> file, key |-> k]

\* load_file(path): the tensors of a file holding the names ks
load_file(file, ks) == [k \in ks |-> Tensor(file, k)]

NoFile == [some |-> FALSE, keys |-> {}]
FileWith(ks) == [some |-> TRUE, keys |-> ks]

Unbound == [bound |-> FALSE, map |-> <<>>]
Bound(m) == [bound |-> TRUE, map |-> m]

\* mutant: one entry per tensor name, the names of a shard are not grouped
FilesToLoadUngrouped(weight_map) ==
  LET F[n \in 0..Len(KeyOrder)] ==
        IF n = 0 THEN <<>>
        ELSE IF KeyOrder[n] \in DOMAIN weight_map
             THEN Append(F[n - 1], [file_name |-> weight_map[KeyOrder[n]],
                                    tensor_names |-> <<KeyOrder[n]>>])
             ELSE F[n - 1]
  IN F[Len(KeyOrder)]

\* lines 478-482: group the tensor names of weight_map by shard file
FilesToLoad(weight_map) ==
  LET F[n \in 0..Len(KeyOrder)] ==
        IF n = 0 THEN <<>>
        ELSE LET tensor_name == KeyOrder[n]
                 prev == F[n - 1]
             IN IF tensor_name \notin DOMAIN weight_map THEN prev
                ELSE LET file_name == weight_map[tensor_name]
                         at == {i \in 1..Len(prev) : prev[i].file_name = file_name}
                     IN IF at = {}
                        THEN Append(prev, [file_name |-> file_name,
                                           tensor_names |-> <<tensor_name>>])
                        ELSE [i \in 1..Len(prev) |->
                                IF i \in at
                                THEN [prev[i] EXCEPT !.tensor_names = Append(@, tensor_name)]
                                ELSE prev[i]]
  IN F[Len(KeyOrder)]

\* lines 493-497: copy the names found in the shard, warn about the others
MergePart(fsd, file_name, tensor_names, part_state_dict) ==
  LET found == {tensor_names[i] : i \in {j \in 1..Len(tensor_names) :
                                            tensor_names[j] \in DOMAIN part_state_dict}}
  IN [k \in DOMAIN fsd \cup found |-> IF k \in found THEN part_state_dict[k] ELSE fsd[k]]

TensorWarnings(file_name, tensor_names, part_state_dict) ==
  {[what |-> "tensor not found", file |-> file_name, key |-> tensor_names[i]] :
     i \in {j \in 1..Len(tensor_names) : tensor_names[j] \notin DOMAIN part_state_dict}}

FileWarning(file_name) ==
  [what |-> "file not found", file |-> file_name, key |-> Key("", "")]

\* lines 361-363, 400-402, 422-424: the keys under "<comp>." with the prefix cut off
Route(fsd, comp) ==
  [name \in {k.name : k \in {x \in DOMAIN fsd : x.comp = comp}} |-> fsd[Key(comp, name)]]

\* load_state_dict(state_dict, strict): missing or unexpected keys raise RuntimeError
\* under strict=True and are tolerated under strict=False
KeysMismatch(comp, state_dict) == DOMAIN state_dict # ExpectedNames(comp)
LoadRaises(comp, state_dict, strict) == strict /\ KeysMismatch(comp, state_dict)
Applied(comp, state_dict) ==
  [name \in DOMAIN state_dict \cap ExpectedNames(comp) |-> state_dict[name]]

\* mutant: the decoder is loaded strictly
LlmStrictTrue == TRUE

\* strict=False (line 366)
LlmStrict == FALSE

\* mutant: the vision tower is loaded permissively
VisionTowerStrictFalse == FALSE

\* strict=True (line 405)
VisionTowerStrict == TRUE

\* strict=True (line 427), then strict=False (line 432)
ConnectorStrict == TRUE
ConnectorRetryStrict == FALSE

Untouched == [source |-> "init", weights |-> <<>>]

InitLoadLocals ==
  /\ full_state_dict = Unbound
  /\ files_to_load = <<>>
  /\ file_idx = 0
  /\ opened = [f \in ShardFiles |-> 0]
  /\ warnings = {}
  /\ modules = [c \in Components |-> Untouched]
  /\ attempts = <<>>
  /\ frozen = FALSE
  /\ lraised = ""

EmptyDisk == [single |-> NoFile, index |-> "none", weight_map |-> <<>>,
              shards |-> [f \in ShardFiles |-> NoFile]]

Files == {NoFile} \cup {FileWith(ks) : ks \in SUBSET Keys}

\* a directory holding model.safetensors
DirWithSingle(ks) == [EmptyDisk EXCEPT !.single = FileWith(ks)]

\* a directory holding model.safetensors.index.json with the weight_map wm, and the
\* shard files sh
DirWithIndex(wm, sh) ==
  [EmptyDisk EXCEPT !.index = "weight_map", !.weight_map = wm, !.shards = sh]

\* from_pretrained(model_config, pretrained_model_path=...)
InitFromPretrained ==
  /\ op = "from_pretrained"
  /\ \/ /\ pretrained_path \in {"absent", "missing", "file_other"}
        /\ disk = EmptyDisk
     \/ /\ pretrained_path \in {"file_safetensors", "dir"}
        /\ \E ks \in SUBSET Keys : disk = DirWithSingle(ks)
     \/ /\ pretrained_path = "dir"
        /\ disk \in {EmptyDisk, [EmptyDisk EXCEPT !.index = "no weight_map"]}
     \/ /\ pretrained_path = "dir"
        /\ \E ks \in SUBSET Keys :
             \E wm \in [ks -> ShardFiles], sh \in [ShardFiles -> Files] :
                disk = DirWithIndex(wm, sh)
  /\ kwargs_fsd = [some |-> FALSE, map |-> <<>>]
  /\ lpc = "call"
  /\ InitLoadLocals

\* load_llm / load_vision_tower / load_connector called on a constructed model,
\* with or without full_state_dict
InitDirectLoad ==
  /\ op \in {"load_llm", "load_vision_tower", "load_connector"}
  /\ pretrained_path = "absent"
  /\ disk = EmptyDisk
  /\ kwargs_fsd \in {[some |-> FALSE, map |-> <<>>]} \cup
                    {[some |-> TRUE, map |-> load_file("model.safetensors", ks)] :
                       ks \in SUBSET Keys}
  /\ lpc = op
  /\ InitLoadLocals


\* ------------------------------------------------ from_pretrained
\* line 453 with pretrained_model_path missing from kwargs: os.path.isfile(None)
ResolveNoPath ==
  /\ lpc = "call"
  /\ pretrained_path = "absent"
  /\ lraised' = "TypeError"
  /\ lpc' = "raised"
  /\ UNCHANGED <<fusion_vars, op, pretrained_path, disk, kwargs_fsd, full_state_dict,
                 files_to_load, file_idx, opened, warnings, modules, attempts, frozen>>

\* lines 453-455: the path is one .safetensors file
ResolveSingleFile ==
  /\ lpc = "call"
  /\ pretrained_path = "file_safetensors"
  /\ full_state_dict' = Bound(load_file("model.safetensors", disk.single.keys))
  /\ lpc' = "check"
  /\ UNCHANGED <<fusion_vars, op, pretrained_path, disk, kwargs_fsd, files_to_load,
                 file_idx, opened, warnings, modules, attempts, frozen, lraised>>

\* lines 458-465: the path is a directory holding model.safetensors
ResolveDirSingle ==
  /\ lpc = "call"
  /\ pretrained_path = "dir"
  /\ disk.single.some
  /\ full_state_dict' = Bound(load_file("model.safetensors", disk.single.keys))
  /\ lpc' = "check"
  /\ UNCHANGED <<fusion_vars, op, pretrained_path, disk, kwargs_fsd, files_to_load,
                 file_idx, opened, warnings, modules, attempts, frozen, lraised>>

\* lines 467-482: the directory holds an index; full_state_dict starts empty and the
\* tensor names of weight_map, when the index has one, are grouped by shard file
ResolveIndex ==
  /\ lpc = "call"
  /\ pretrained_path = "dir"
  /\ ~disk.single.some
  /\ disk.index # "none"
  /\ full_state_dict' = Bound(<<>>)
  /\ IF disk.index = "weight_map"
     THEN /\ files_to_load' = FilesToLoad(disk.weight_map)
          /\ lpc' = "merge"
     ELSE /\ files_to_load' = <<>>
          /\ lpc' = "check"
  /\ file_idx' = 0
  /\ UNCHANGED <<fusion_vars, op, pretrained_path, disk, kwargs_fsd, opened, warnings,
                 modules, attempts, frozen, lraised>>

\* no branch of lines 453-467 applies
NothingFound ==
  \/ pretrained_path \in {"missing", "file_other"}
  \/ (pretrained_path = "dir" /\ ~disk.single.some /\ disk.index = "none")

\* lines 453-467 fall through: full_state_dict is never assigned
ResolveNothing ==
  /\ lpc = "call"
  /\ NothingFound
  /\ lpc' = "check"
  /\ UNCHANGED <<fusion_vars, op, pretrained_path, disk, kwargs_fsd, full_state_dict,
                 files_to_load, file_idx, opened, warnings, modules, attempts, frozen,
                 lraised>>

\* lines 484-497: one shard file of files_to_load
LoadShard ==
  /\ lpc = "merge"
  /\ file_idx < Len(files_to_load)
  /\ LET file_name == files_to_load[file_idx + 1].file_name
         tensor_names == files_to_load[file_idx + 1].tensor_names
     IN IF ~disk.shards[file_name].some
        THEN /\ warnings' = warnings \cup {FileWarning(file_name)}
             /\ UNCHANGED <<opened, full_state_dict>>
        ELSE LET part_state_dict == load_file(file_name, disk.shards[file_name].keys)
             IN /\ opened' = [opened EXCEPT ![file_name] = @ + 1]
                /\ full_state_dict' =
                     Bound(MergePart(full_state_dict.map, file_name, tensor_names,
                                     part_state_dict))
                /\ warnings' = warnings \cup
                     TensorWarnings(file_name, tensor_names, part_state_dict)
  /\ file_idx' = file_idx + 1
  /\ UNCHANGED <<fusion_vars, op, pretrained_path, disk, kwargs_fsd, lpc, files_to_load,
                 modules, attempts, frozen, lraised>>

\* line 499 is reached
AtCheck == lpc = "check" \/ (lpc = "merge" /\ file_idx = Len(files_to_load))

\* line 499 reads full_state_dict, which no branch assigned
RaiseUnbound ==
  /\ AtCheck
  /\ ~full_state_dict.bound
  /\ lraised' = "UnboundLocalError"
  /\ lpc' = "raised"
  /\ UNCHANGED <<fusion_vars, op, pretrained_path, disk, kwargs_fsd, full_state_dict,
                 files_to_load, file_idx, opened, warnings, modules, attempts, frozen>>

\* lines 499-501: the merged map goes into kwargs for the three loaders
PassStateDict ==
  /\ AtCheck
  /\ full_state_dict.bound
  /\ kwargs_fsd' = [some |-> TRUE, map |-> full_state_dict.map]
  /\ lpc' = "load_llm"
  /\ UNCHANGED <<fusion_vars, op, pretrained_path, disk, full_state_dict, files_to_load,
                 file_idx, opened, warnings, modules, attempts, frozen, lraised>>

\* ------------------------------------------------ the component loaders
\* where the call goes after a loader returns
AfterLoader(next) == IF op = "from_pretrained" THEN next ELSE "done"

Loaded(comp, state_dict) == [source |-> "state_dict", weights |-> Applied(comp, state_dict)]
Standalone == [source |-> "standalone", weights |-> <<>>]

\* lines 356-389
load_llm ==
  /\ lpc = "load_llm"
  /\ IF kwargs_fsd.some
     THEN LET llm_state_dict == Route(kwargs_fsd.map, "language_model")
          IN /\ attempts' = Append(attempts, [comp |-> "language_model", strict |-> LlmStrict])
             /\ modules' = [modules EXCEPT
                  !["language_model"] = Loaded("language_model", llm_state_dict)]
             /\ IF LoadRaises("language_model", llm_state_dict, LlmStrict)
                THEN /\ lraised' = "RuntimeError"
                     /\ lpc' = "raised"
                     /\ UNCHANGED frozen
                ELSE /\ frozen' = TRUE
                     /\ lpc' = AfterLoader("load_vision_tower")
                     /\ UNCHANGED lraised
     ELSE /\ modules' = [modules EXCEPT !["language_model"] = Standalone]
          /\ frozen' = TRUE
          /\ lpc' = AfterLoader("load_vision_tower")
          /\ UNCHANGED <<attempts, lraised>>
  /\ UNCHANGED <<fusion_vars, op, pretrained_path, disk, kwargs_fsd, full_state_dict,
                 files_to_load, file_idx, opened, warnings>>

\* lines 394-414
load_vision_tower ==
  /\ lpc = "load_vision_tower"
  /\ IF kwargs_fsd.some
     THEN LET vision_tower_state_dict == Route(kwargs_fsd.map, "vision_tower")
          IN /\ attempts' = Append(attempts,
                  [comp |-> "vision_tower", strict |-> VisionTowerStrict])
             /\ modules' = [modules EXCEPT
                  !["vision_tower"] = Loaded("vision_tower", vision_tower_state_dict)]
             /\ IF LoadRaises("vision_tower", vision_tower_state_dict, VisionTowerStrict)
                THEN /\ lraised' = "RuntimeError"
                     /\ lpc' = "raised"
                ELSE /\ lpc' = AfterLoader("load_connector")
                     /\ UNCHANGED lraised
     ELSE /\ modules' = [modules EXCEPT !["vision_tower"] = Standalone]
          /\ lpc' = AfterLoader("load_connector")
          /\ UNCHANGED <<attempts, lraised>>
  /\ UNCHANGED <<fusion_vars, op, pretrained_path, disk, kwargs_fsd, full_state_dict,
                 files_to_load, file_idx, opened, warnings, frozen>>

\* lines 417-437
load_connector ==
  /\ lpc = "load_connector"
  /\ IF kwargs_fsd.some
     THEN LET connector_state_dict == Route(kwargs_fsd.map, "connector")
              first == [comp |-> "connector", strict |-> ConnectorStrict]
              second == [comp |-> "connector", strict |-> ConnectorRetryStrict]
          IN /\ modules' = [modules EXCEPT
                  !["connector"] = Loaded("connector", connector_state_dict)]
             /\ IF LoadRaises("connector", connector_state_dict, ConnectorStrict)
                THEN /\ attempts' = attempts \o <<first, second>>
                     /\ IF LoadRaises("connector", connector_state_dict, ConnectorRetryStrict)
                        THEN /\ lraised' = "RuntimeError"
                             /\ lpc' = "raised"
                        ELSE /\ lpc' = AfterLoader("return")
                             /\ UNCHANGED lraised
                ELSE /\ attempts' = Append(attempts, first)
                     /\ lpc' = AfterLoader("return")
                     /\ UNCHANGED lraised
     ELSE /\ modules' = [modules EXCEPT !["connector"] = Standalone]
          /\ lpc' = AfterLoader("return")
          /\ UNCHANGED <<attempts, lraised>>
  /\ UNCHANGED <<fusion_vars, op, pretrained_path, disk, kwargs_fsd, full_state_dict,
                 files_to_load, file_idx, opened, warnings, frozen>>

\* lines 508-517: from_pretrained returns the model
ReturnModel ==
  /\ lpc = "return"
  /\ lpc' = "done"
  /\ UNCHANGED <<fusion_vars, op, pretrained_path, disk, kwargs_fsd, full_state_dict,
                 files_to_load, file_idx, opened, warnings, modules, attempts, frozen,
                 lraised>>

NextLoad ==
  \/ ResolveNoPath
  \/ ResolveSingleFile
  \/ ResolveDirSingle
  \/ ResolveIndex
  \/ ResolveNothing
  \/ LoadShard
  \/ RaiseUnbound
  \/ PassStateDict
  \/ load_llm
  \/ load_vision_tower
  \/ load_connector
  \/ ReturnModel

\* ------------------------------------------------------ specifications
\* no loading is in progress while a fusion call is followed
LoadIdle ==
  /\ op = "none"
  /\ pretrained_path = "absent"
  /\ disk = EmptyDisk
  /\ kwargs_fsd = [some |-> FALSE, map |-> <<>>]
  /\ lpc = "idle"
  /\ InitLoadLocals

\* no fusion call is in progress while a load is followed
FusionIdle ==
  /\ vision_tower = TRUE
  /\ config = [tune_mm_mlp_adapter |-> FALSE, tokenizer_model_max_length |-> NoneInt,
               tokenizer_padding_side |-> "right"]
  /\ input_ids = <<>>
  /\ arg_position_ids = None
  /\ arg_attention_mask = None
  /\ arg_labels = None
  /\ past_key_values = None
  /\ images = NoneInt
  /\ caller = "none"
  /\ arg_inputs_embeds = None
  /\ kwargs = {}
  /\ InitLocals
  /\ pc = "idle"
  /\ ret = None
  /\ raised = ""
  /\ decoder = None

InitFusion == InitFusionCall /\ LoadIdle
InitLoad == (InitFromPretrained \/ InitDirectLoad) /\ FusionIdle

InitCall == (InitForward \/ InitGenerate) /\ LoadIdle

SpecFusion == InitFusion /\ [][NextFusion]_vars
SpecCall == InitCall /\ [][NextCall]_vars
SpecLoad == InitLoad /\ [][NextLoad]_vars


\* ================================================================ claims
\* ------------------------------------------- vocabulary of the claims
RECURSIVE SumSeq(_)
SumSeq(x) == IF x = <<>> THEN 0 ELSE Head(x) + SumSeq(Tail(x))

\* sentinels in the depadded samples 1..n
SentinelsUpTo(n) == SumSeq([i \in 1..n |-> NumImages(ids_list[i])])
TotalSentinels == SentinelsUpTo(Len(ids_list))

\* blocks the cursor draws for one sample: one per sentinel, one for a sample without
DrawsOf(ids) == IF NumImages(ids) = 0 THEN 1 ELSE NumImages(ids)
DrawsUpTo(n) == SumSeq([i \in 1..n |-> DrawsOf(ids_list[i])])
TotalDraws == DrawsUpTo(Len(ids_list))

NonSentinels(ids) == Len(ids) - NumImages(ids)

\* the call is in, or was thrown out of, the loop over the batch
InFusionLoop == pc = "fuse" \/ (pc = "raised" /\ raised = "IndexError")

\* the sample with its sentinels replaced, left to right, by blocks k, k+1, ...
RECURSIVE Spliced(_, _)
Spliced(ids, k) ==
  IF ids = <<>> THEN <<>>
  ELSE IF Head(ids) = IMAGE_TOKEN_INDEX
       THEN ImageBlock(k) \o Spliced(Tail(ids), k + 1)
       ELSE <<Embed(Head(ids))>> \o Spliced(Tail(ids), k)

\* ------------------------------------------------------------------ C1
\* C1 as claimed: every sample the loop completes advances the cursor by the number
\* of sentinels of that sample, a sample without sentinel by zero.
C1_AdvanceEqualsSentinels ==
  [][(pc = "fuse" /\ batch_idx' = batch_idx + 1)
       => cur_image_idx' - cur_image_idx = NumImages(ids_list[batch_idx + 1])]_vars

\* C1 amended: a sample with sentinels advances the cursor by their number; a sample
\* without sentinel advances it by exactly one.
C1_AdvanceEqualsDraws ==
  [][(pc = "fuse" /\ batch_idx' = batch_idx + 1)
       => cur_image_idx' - cur_image_idx = DrawsOf(ids_list[batch_idx + 1])]_vars

\* a sample without sentinel, then one with a sentinel, both fused
C1_Witness ==
  /\ pc = "fuse"
  /\ batch_idx = 2
  /\ NumImages(ids_list[1]) = 0
  /\ NumImages(ids_list[2]) = 1
  /\ cur_image_idx = 2

\* ------------------------------------------------------------------ C4
\* C4 as claimed: with exactly one block per sentinel the loop never raises, the k-th
\* sentinel of the batch receives the k-th block, and a fused sample is as long as its
\* non-sentinel tokens plus the patches of its blocks.
C4_OneBlockPerSentinel ==
  (InFusionLoop /\ images.val = TotalSentinels) =>
     /\ raised = ""
     /\ \A i \in 1..batch_idx :
          /\ new_input_embeds[i] = Spliced(ids_list[i], SentinelsUpTo(i - 1))
          /\ Len(new_input_embeds[i]) =
               NonSentinels(ids_list[i]) + NumPatches * NumImages(ids_list[i])

\* C4 amended: with a block for every draw of the cursor (one per sentinel and one per
\* sample without sentinel, surplus blocks allowed) the loop never raises, a sentinel
\* receives the block whose index is the number of draws before it, and a fused
\* sample is as long as its non-sentinel tokens plus the patches of its blocks.
C4_OneBlockPerDraw ==
  (InFusionLoop /\ images.val >= TotalDraws) =>
     /\ raised = ""
     /\ \A i \in 1..batch_idx :
          /\ new_input_embeds[i] = Spliced(ids_list[i], DrawsUpTo(i - 1))
          /\ Len(new_input_embeds[i]) =
               NonSentinels(ids_list[i]) + NumPatches * NumImages(ids_list[i])

\* the documented scenario with a second block for B: fused lengths 4 and 1
C4_Witness ==
  /\ input_ids = ScenarioBatch.ids
  /\ images.val = 2
  /\ pc = "fuse"
  /\ batch_idx = 2
  /\ Len(new_input_embeds[1]) = 2 + NumPatches
  /\ Len(new_input_embeds[2]) = 1

\* ------------------------------------------------------------------ C5
\* C5 as claimed: whenever the sentinels of the depadded batch and the blocks supplied
\* differ in number, the call does not get past the loop over the batch.
C5_MismatchIsFatal ==
  (pc \in {"combine", "pad", "done"} /\ ids_list # <<>>) => images.val = TotalSentinels

\* C5 amended: the call raises IndexError in the loop exactly when fewer blocks were
\* supplied than the cursor draws; with at least that many it gets past the loop,
\* whether or not their number equals the number of sentinels.
C5_TooFewDrawsIsFatal ==
  /\ (pc = "raised" /\ raised = "IndexError") => images.val < TotalDraws
  /\ (pc = "fuse" /\ batch_idx = Len(ids_list)) => images.val >= TotalDraws
  /\ (pc \in {"combine", "pad", "done"} /\ ids_list # <<>>) => images.val >= TotalDraws

\* a block was supplied, and the loop still ran out of blocks
C5_Witness ==
  /\ pc = "raised"
  /\ raised = "IndexError"
  /\ images.val >= 1
  /\ images.val >= TotalSentinels

\* ------------------------------------------- vocabulary of C8, C9, C10
\* the call returned a fused batch (not the short-circuit's hand-back)
FusedReturn == pc = "done" /\ ret.val.inputs_embeds.some

\* rows of the padded batch that are filled in
RowsPadded == IF pc = "pad" THEN pad_i ELSE IF FusedReturn THEN Len(new_input_embeds) ELSE 0

\* where the fused sample of length cur_len sits in a row of length max_len
SpanStart(cur_len, max_len) ==
  IF config.tokenizer_padding_side = "left" THEN max_len - cur_len + 1 ELSE 1
InSpan(j, cur_len, max_len) ==
  j >= SpanStart(cur_len, max_len) /\ j < SpanStart(cur_len, max_len) + cur_len

\* ------------------------------------------------------------------ C8
\* C8: every filled-in row has the batch's maximal length; the fused sample's
\* embeddings and labels sit in its first cur_len positions under right padding and in
\* its last cur_len positions under left padding, with a true mask; every other
\* position holds the zero vector, IGNORE_INDEX and a false mask (a sample of length 0
\* is masked out entirely); a returned mask and returned labels say the same.
C8_PaddingCorrect ==
  \A i \in 1..RowsPadded :
    LET cur_len == Len(new_input_embeds[i])
        max_len == MaxLenOf(new_input_embeds)
        start == SpanStart(cur_len, max_len)
    IN /\ Len(new_input_embeds_padded[i]) = max_len
       /\ Len(new_labels_padded[i]) = max_len
       /\ Len(attention_mask[i]) = max_len
       /\ \A j \in 1..max_len :
            IF InSpan(j, cur_len, max_len)
            THEN /\ new_input_embeds_padded[i][j] = new_input_embeds[i][j - start + 1]
                 /\ new_labels_padded[i][j] = new_labels[i][j - start + 1]
                 /\ attention_mask[i][j] = TRUE
            ELSE /\ new_input_embeds_padded[i][j] = ZeroVec
                 /\ new_labels_padded[i][j] = IGNORE_INDEX
                 /\ attention_mask[i][j] = FALSE
       /\ FusedReturn =>
            /\ ret.val.inputs_embeds.val[i] = new_input_embeds_padded[i]
            /\ ret.val.attention_mask.some =>
                 \A j \in 1..max_len :
                   ret.val.attention_mask.val[i][j] =
                     (IF InSpan(j, cur_len, max_len) THEN 1 ELSE 0)
            /\ ret.val.labels.some => ret.val.labels.val[i] = new_labels_padded[i]

\* left padding, returned: one row is empty and fully masked, the other is not
C8_Witness ==
  /\ FusedReturn
  /\ config.tokenizer_padding_side = "left"
  /\ Len(new_input_embeds) = 2
  /\ Len(new_input_embeds[1]) = 0
  /\ Len(new_input_embeds[2]) = 2
  /\ ret.val.attention_mask.some
  /\ ret.val.attention_mask.val = <<(<<0, 0>>), (<<1, 1>>)>>

\* ------------------------------------------------------------------ C9
\* C9: over the non-padded span of every filled-in row the position ids are
\* 0, 1, ..., cur_len-1 in order, for both padding sides, and the position ids
\* handed back to a caller who passed some are these.
C9_PositionIdsRestart ==
  \A i \in 1..RowsPadded :
    LET cur_len == Len(new_input_embeds[i])
        max_len == MaxLenOf(new_input_embeds)
        start == SpanStart(cur_len, max_len)
    IN /\ Len(position_ids[i]) = max_len
       /\ \A k \in 0..(cur_len - 1) : position_ids[i][start + k] = k
       /\ (FusedReturn /\ ret.val.position_ids.some) =>
            \A k \in 0..(cur_len - 1) : ret.val.position_ids.val[i][start + k] = k

\* left padding, returned to a caller who passed position ids: a row with padding
\* in front of two real positions
C9_Witness ==
  /\ FusedReturn
  /\ config.tokenizer_padding_side = "left"
  /\ arg_position_ids.some
  /\ \E i \in 1..Len(new_input_embeds) :
       /\ Len(new_input_embeds[i]) = 2
       /\ MaxLenOf(new_input_embeds) > 2
       /\ ret.val.position_ids.val[i][MaxLenOf(new_input_embeds)] = 1

\* ----------------------------------------------------------------- C10
\* C10: when the call returns, each of attention mask, labels and position ids is
\* absent in the result exactly when the caller passed it as absent.
C10_AbsencePropagates ==
  pc = "done" =>
    /\ ret.val.attention_mask.some <=> arg_attention_mask.some
    /\ ret.val.labels.some <=> arg_labels.some
    /\ ret.val.position_ids.some <=> arg_position_ids.some

\* a fused return to a caller who passed a mask only
C10_Witness ==
  /\ FusedReturn
  /\ arg_attention_mask.some
  /\ ~arg_labels.some
  /\ ~arg_position_ids.some
  /\ ret.val.attention_mask.some
  /\ ~ret.val.labels.some
  /\ ~ret.val.position_ids.some

\* ------------------------------------------- vocabulary of C2, C3, C6, C7
\* the load_state_dict calls made on one component, as their strict flags
RECURSIVE StrictFlagsOf(_, _)
StrictFlagsOf(comp, calls) ==
  IF calls = <<>> THEN <<>>
  ELSE (IF Head(calls).comp = comp THEN <<Head(calls).strict>> ELSE <<>>)
         \o StrictFlagsOf(comp, Tail(calls))

\* the sub-state of the map in kwargs does not match the component's keys exactly
SubStateMismatch(comp) == KeysMismatch(comp, Route(kwargs_fsd.map, comp))

LoadEnded == lpc \in {"done", "raised"}

\* from_pretrained found a consolidated checkpoint and handed it to the loaders
ConsolidatedLoad == op = "from_pretrained" /\ full_state_dict.bound /\ kwargs_fsd.some

\* ------------------------------------------------------------------ C2
\* C2 as claimed: no loader lets a key mismatch reach the caller; the decoder is
\* loaded permissively; the vision tower is loaded strictly first and, on a mismatch,
\* once more permissively.
C2_VisionTowerRetries ==
  /\ lraised # "RuntimeError"
  /\ \A i \in 1..Len(attempts) :
       attempts[i].comp = "language_model" => ~attempts[i].strict
  /\ StrictFlagsOf("vision_tower", attempts) # <<>> =>
       StrictFlagsOf("vision_tower", attempts) =
         (IF SubStateMismatch("vision_tower") THEN <<TRUE, FALSE>> ELSE <<TRUE>>)

\* C2 amended: the decoder is loaded permissively and never raises on its keys; the
\* connector is loaded strictly first and, on a mismatch, once more permissively, and
\* never raises on its keys; the vision tower is loaded strictly once, and a mismatch
\* of its keys leaves the loader as a RuntimeError, with no retry.
C2_ConnectorRetries ==
  /\ \A i \in 1..Len(attempts) :
       attempts[i].comp = "language_model" => ~attempts[i].strict
  /\ StrictFlagsOf("connector", attempts) # <<>> =>
       StrictFlagsOf("connector", attempts) =
         (IF SubStateMismatch("connector") THEN <<TRUE, FALSE>> ELSE <<TRUE>>)
  /\ StrictFlagsOf("vision_tower", attempts) # <<>> =>
       /\ StrictFlagsOf("vision_tower", attempts) = <<TRUE>>
       /\ SubStateMismatch("vision_tower") <=> lraised = "RuntimeError"
  /\ lraised = "RuntimeError" => attempts[Len(attempts)].comp = "vision_tower"

\* a consolidated load that went through: the decoder's keys did not match and were
\* tolerated, the connector was retried
C2_Witness ==
  /\ ConsolidatedLoad
  /\ lpc = "done"
  /\ SubStateMismatch("language_model")
  /\ StrictFlagsOf("connector", attempts) = <<TRUE, FALSE>>
  /\ StrictFlagsOf("vision_tower", attempts) = <<TRUE>>

\* ------------------------------------------------------------------ C3
\* C3: when the path is no .safetensors file and no directory holding
\* model.safetensors or model.safetensors.index.json, from_pretrained raises nothing
\* and ends with all three components loaded by their standalone routines.
C3_FallbackRuns ==
  (op = "from_pretrained" /\ NothingFound /\ lpc # "call") =>
     /\ lraised = ""
     /\ lpc = "done" => \A c \in Components : modules[c].source = "standalone"
     /\ lpc # "raised"

\* ------------------------------------------------------------------ C6
\* C6 as claimed: a consolidated load always ends with the model returned, nothing
\* raised, and the sub-states applied to all three components.
C6_NeverAborts ==
  (ConsolidatedLoad /\ LoadEnded) =>
     /\ lpc = "done"
     /\ lraised = ""
     /\ \A c \in Components : modules[c].source = "state_dict"

\* C6 amended: a consolidated load applies the available sub-state to the decoder and
\* then to the vision tower whatever their keys; when the vision tower's sub-state
\* matches its keys exactly the connector is loaded next and the model is returned
\* with nothing raised; when it does not, RuntimeError reaches the caller before the
\* connector is touched.
C6_AbortsOnVisionTowerOnly ==
  (ConsolidatedLoad /\ LoadEnded) =>
     /\ lpc = "done" <=> ~SubStateMismatch("vision_tower")
     /\ \A c \in {"language_model", "vision_tower"} :
          modules[c] = Loaded(c, Route(full_state_dict.map, c))
     /\ lpc = "done" =>
          /\ lraised = ""
          /\ modules["connector"] = Loaded("connector", Route(full_state_dict.map, "connector"))
          /\ [i \in 1..3 |-> attempts[i].comp] = <<"language_model", "vision_tower", "connector">>
     /\ lpc = "raised" =>
          /\ lraised = "RuntimeError"
          /\ modules["connector"] = Untouched
          /\ [i \in 1..Len(attempts) |-> attempts[i].comp] = <<"language_model", "vision_tower">>

\* a partial merged map (a shard was missing) was applied and the model returned
C6_Witness ==
  /\ ConsolidatedLoad
  /\ lpc = "done"
  /\ warnings # {}
  /\ SubStateMismatch("language_model")
  /\ modules["vision_tower"].weights # <<>>

\* ------------------------------------------------------------------ C7
\* the manifest names whose declared shard file exists and holds the name
Resolvable ==
  {k \in DOMAIN disk.weight_map :
     /\ disk.shards[disk.weight_map[k]].some
     /\ k \in disk.shards[disk.weight_map[k]].keys}

\* the shard files the manifest names
Declared == {disk.weight_map[k] : k \in DOMAIN disk.weight_map}

\* the merge of an index with a weight_map is over
MergeDone ==
  /\ op = "from_pretrained"
  /\ pretrained_path = "dir" /\ ~disk.single.some /\ disk.index = "weight_map"
  /\ lpc # "call"
  /\ ~(lpc = "merge" /\ file_idx < Len(files_to_load))

\* C7: no shard file is opened more than once; when the merge is over the merged map
\* holds exactly the manifest names whose declared shard exists and holds the name,
\* each with the tensor of its declared shard; every missing shard file and every
\* name missing from its shard was reported, and nothing was raised by the merge.
C7_ShardMerge ==
  /\ \A f \in ShardFiles : opened[f] <= 1
  /\ MergeDone =>
       /\ full_state_dict.bound
       /\ DOMAIN full_state_dict.map = Resolvable
       /\ \A k \in Resolvable : full_state_dict.map[k] = Tensor(disk.weight_map[k], k)
       /\ \A f \in ShardFiles : opened[f] = (IF f \in Declared /\ disk.shards[f].some THEN 1 ELSE 0)
       /\ warnings =
            {FileWarning(f) : f \in {g \in Declared : ~disk.shards[g].some}} \cup
            {[what |-> "tensor not found", file |-> disk.weight_map[k], key |-> k] :
               k \in {x \in DOMAIN disk.weight_map :
                        disk.shards[disk.weight_map[x]].some /\ x \notin Resolvable}}
       /\ lraised \in {"", "RuntimeError"}
       /\ lraised = "RuntimeError" => attempts # <<>>

\* a manifest with one shard missing, one name missing from its shard, and two names
\* resolved from a shard; the other shard's tensor of the same name was not taken
C7_Witness ==
  /\ MergeDone
  /\ lpc = "load_llm"
  /\ Cardinality(DOMAIN disk.weight_map) = 4
  /\ ~disk.shards["shard2"].some
  /\ disk.weight_map[Key("connector", "extra")] = "shard2"
  /\ Cardinality(DOMAIN full_state_dict.map) = 2
  /\ Cardinality(warnings) = 2
  /\ opened = [f \in ShardFiles |-> IF f = "shard1" THEN 1 ELSE 0]

\* ------------------------------------------------ short-circuit (C11)
\* the three cases the claim names, read off the arguments of the call
NothingToFuse == ~vision_tower \/ ~images.some \/ Len(input_ids[1]) = 1

\* C11: when there is no vision encoder, or images is absent, or the token batch
\* has sequence length 1, the call never enters the fusion steps and never calls
\* the image encoder, and what it returns is the caller's token ids, position
\* ids, attention mask, past key values and labels as they were passed, with no
\* embeddings
C11_ShortCircuitPassthrough ==
  NothingToFuse =>
    /\ encode_calls = 0
    /\ image_features = <<>>
    /\ pc \notin {"fuse", "combine", "pad"}
    /\ pc = "done" => ret.some
    /\ ret.some =>
         /\ ret.val.input_ids = Some(input_ids)
         /\ ret.val.position_ids = arg_position_ids
         /\ ret.val.attention_mask = arg_attention_mask
         /\ ret.val.past_key_values = past_key_values
         /\ ret.val.labels = arg_labels
         /\ ~ret.val.inputs_embeds.some

\* a single-token batch holding a sentinel, passed with images, a cache, labels,
\* position ids and a mask to a model that has a vision encoder, came back
C11_Witness ==
  /\ ret.some
  /\ vision_tower
  /\ images.some
  /\ images.val > 0
  /\ Len(input_ids[1]) = 1
  /\ NumImages(input_ids[1]) = 1
  /\ past_key_values.some
  /\ arg_labels.some
  /\ arg_position_ids.some
  /\ arg_attention_mask.some

\* ---------------------------------------------- length invariant (C12)
\* the fused samples built so far pair up, each as long as its labels
PairsAgree ==
  /\ Len(new_input_embeds) = Len(new_labels)
  /\ \A i \in 1..Len(new_input_embeds) : Len(new_input_embeds[i]) = Len(new_labels[i])

\* the truncation of lines 303-307 is behind
AfterTruncation == pc \in {"combine", "pad"} \/ FusedReturn

\* sample i as the loop built it, before any truncation
Untruncated(i) == FuseSample(ids_list[i], labels[i], image_features, DrawsUpTo(i - 1))

\* x is y cut to at most cap elements from the start
LeadingPrefix(x, y, cap) ==
  /\ Len(x) = (IF cap.some /\ cap.val < Len(y) THEN cap.val ELSE Len(y))
  /\ \A k \in 1..Len(x) : x[k] = y[k]

\* n is the largest length among the truncated fused samples
IsMaxTruncatedLen(n) ==
  /\ \A i \in 1..Len(new_input_embeds) : Len(new_input_embeds[i]) <= n
  /\ \E i \in 1..Len(new_input_embeds) : Len(new_input_embeds[i]) = n

\* every row of x has length n
RowsOfLen(x, n) == \A i \in 1..Len(x) : Len(x[i]) = n

\* C12: every fused sample has as many embeddings as labels after interleaving;
\* after truncation both are the same leading prefix of what was built, at most
\* tokenizer_model_max_length long; after padding the embeddings, labels, mask and
\* position ids of every row, also as returned, have length max_len, the largest
\* truncated fused length in the batch
C12_LengthInvariant ==
  /\ pc \in {"fuse", "combine", "pad", "done"} => PairsAgree
  /\ AfterTruncation =>
       LET cap == config.tokenizer_model_max_length
       IN \A i \in 1..Len(new_input_embeds) :
            LET built == Untruncated(i)
            IN /\ LeadingPrefix(new_input_embeds[i], built.embeds, cap)
               /\ LeadingPrefix(new_labels[i], built.labels, cap)
               /\ cap.some => /\ Len(new_input_embeds[i]) <= cap.val
                              /\ Len(new_labels[i]) <= cap.val
  /\ \A i \in 1..RowsPadded :
       LET max_len == Len(new_input_embeds_padded[i])
       IN /\ IsMaxTruncatedLen(max_len)
          /\ Len(new_labels_padded[i]) = max_len
          /\ Len(attention_mask[i]) = max_len
          /\ Len(position_ids[i]) = max_len
  /\ FusedReturn =>
       LET max_len == Len(ret.val.inputs_embeds.val[1])
       IN
         /\ IsMaxTruncatedLen(max_len)
         /\ Len(ret.val.inputs_embeds.val) = Len(input_ids)
         /\ RowsOfLen(ret.val.inputs_embeds.val, max_len)
         /\ ret.val.labels.some => RowsOfLen(ret.val.labels.val, max_len)
         /\ ret.val.attention_mask.some => RowsOfLen(ret.val.attention_mask.val, max_len)
         /\ ret.val.position_ids.some => RowsOfLen(ret.val.position_ids.val, max_len)

\* a batch came back fused in which one sample was cut to the configured length
\* and a shorter one was padded up to it, with labels, mask and position ids
C12_Witness ==
  /\ FusedReturn
  /\ config.tokenizer_model_max_length.some
  /\ \E i \in 1..Len(new_input_embeds) :
       Len(Untruncated(i).embeds) > config.tokenizer_model_max_length.val
  /\ \E i, j \in 1..Len(new_input_embeds) :
       Len(new_input_embeds[i]) < Len(new_input_embeds[j])
  /\ ret.val.labels.some
  /\ ret.val.attention_mask.some
  /\ ret.val.position_ids.some

\* ------------------------------------------------------ generate (C13)
\* fusion ran to its end and returned fused embeddings
FusionRan == ret.some /\ ret.val.inputs_embeds.some

\* C13: a generate call that reaches the decoder gives it the prompt, as the fused
\* embeddings if fusion ran and as the embedded token ids if fusion short-circuited
\* or was skipped, so that language_model.generate never has both token ids and
\* embeddings absent; a generate call that carries inputs_embeds ends in an error
\* with no fusion, no image encoding and no decoder call made
C13_DecoderGetsPrompt ==
  caller = "generate" =>
    /\ decoder.some =>
         /\ decoder.val.input_ids.some \/ decoder.val.inputs_embeds.some
         /\ FusionRan => decoder.val.inputs_embeds = ret.val.inputs_embeds
         /\ ~FusionRan => decoder.val.inputs_embeds = Some(EmbedTokens(input_ids))
    /\ "inputs_embeds" \in kwargs =>
         /\ pc \in {"enter", "raised"}
         /\ pc = "raised" => raised = "NotImplementedError"
         /\ encode_calls = 0
         /\ ~ret.some
         /\ ~decoder.some

====
